---- MODULE Spec2Model ----
(***************************************************************************)
(* MailStream: the rate limiter (src/js/api/RateLimiter.js) and the batch  *)
(* sender (src/js/services/EmailSender.js) as state machines.              *)
(*                                                                         *)
(* JavaScript runs one handler to its next await without interruption, so  *)
(* each action below is one such synchronous run.                         *)
(*                                                                         *)
(* Time is in milliseconds.  The code reads a time stamp only as           *)
(* Date.now() minus the stamp, so the model keeps that difference (an age, *)
(* or for a sleep the time left) and lets it stop growing once it is past  *)
(* everything it is compared with.  The refill timer fires at every        *)
(* multiple of 100 ms; `phase` is Date.now() modulo 100.                   *)
(***************************************************************************)
EXTENDS Integers, Sequences, FiniteSets, TLC

(* ------------------------------ bounds -------------------------------- *)

\* task objects alive at once (queued or held by the drainer)
MaxQueue == 3
\* 100 ms steps of the clock taken in one behaviour
MaxTicks == 2
\* failures the circuit breaker's counter may reach before tasks stop failing
MaxFailures == 6
\* items in the sender's queue
MaxItems == 2
\* activations of the sender's loop alive at once
MaxLoops == 2
\* sends the sender counts in one behaviour
MaxSent == 4
\* the timeout option of the tasks of the pacing and circuit runs, in ms
ShortTimeout == 100
\* executeGmailRequest: units of the daily quota left when a behaviour starts
MaxQuotaLeft == 10
\* EmailDownloader: message ids passed to download(), and its chunkSize option
MaxMessages == 3
ChunkSize == 2
\* SmartCache: maxSize of the cache
CacheMax == 2
\* SmartCache: ticks of the clock in one behaviour
MaxNow == 3
\* SmartCache: value objects a behaviour stores
MaxObjects == 2
\* SmartCache: what each counter of #stats may reach
MaxCount == 2

(* ------------------------- program constants -------------------------- *)

CircuitTimeout == 30000
FailureThreshold == 5
RefillPeriod == 100
DefaultTimeout == 30000
BackoffBase == 1000
BackoffMultiplier == 2
MaxBackoff == 60000
\* EmailSender: attempts after which an item is marked failed
MaxSendAttempts == 3
\* CONFIG.RATE_LIMITS.QUOTA_PER_DAY, and the default of quotaUnits
QuotaPerDay == 500
QuotaUnits == 5

(* ------------------------------ inputs -------------------------------- *)

\* limits a caller declares with setLimit(resource, limit)
Limits ==
    { [rate |-> 1, interval |-> 1000, burst |-> 2],
      [rate |-> 1, interval |-> 1000, burst |-> 1] }

InitialLimit == [rate |-> 1, interval |-> 1000, burst |-> 2]

\* a limit of one request per second with no burst beyond it
PacedLimit == [rate |-> 1, interval |-> 1000, burst |-> 1]

\* the limit #setupDefaultLimits declares for the resource 'default'
DefaultLimit == [rate |-> 10, interval |-> 1000, burst |-> 20]

Priorities == {0, 1}
RetryBudgets == {1, 2}
\* priorities of the tasks of a burst
BurstPriorities == {1, 3, 5}
\* the retries option execute() defaults to
DefaultRetries == 3
\* Math.random() * 100 in #calculateWaitTime
WaitJitters == {0}
\* Math.random() in #calculateBackoff, in halves: 0 and 1/2
BackoffRands == {0, 1}
\* units of an external wait(resource, units) call
WaitUnits == {1, 2}

\* what executeGmailRequest rejects with: a message that contains 'quota'; an
\* error with code 429 whose message does not; any other error
ErrorClasses == {"quota", "rate-limit-429", "other"}

\* SmartCache: the keys callers use; the ttl option, in ticks; the values:
\* objects 1..MaxObjects, and 0 for a primitive
Keys == {"", "a", "b"}
Ttls == {2}
Objects == 1..MaxObjects
Values == Objects \cup {0}
\* cleanup(percentage), in percent
Percentages == {20, 50, 100}

\* EmailDownloader: attachments an email may carry
Attachments == {0, 1}

IDs == 1..MaxQueue
Items == 1..MaxItems
LoopIds == 1..MaxLoops

VARIABLES
    limits,         \* #limits.get(resource)
    tokens,         \* #tokens.get(resource)
    queue,          \* #queues.get(resource): task ids, head first
    tasks,          \* the task objects, by id
    processing,     \* #queues.get(resource + "_processing")
    pc,             \* where the drainer (#processQueue) stands
    cur,            \* the drainer's local `task`
    wakeIn,         \* what is left of the drainer's sleep
    cb,             \* #circuitBreaker.get(resource)
    retryAttempts,  \* #retryAttempts.get(resource); -1: no entry
    sinceLast,      \* Date.now() - (#sinceLast.get(resource) || 0)
    waiter,         \* an external caller inside wait(resource, units)
    phase,          \* Date.now() % 100
    ticks,          \* 100 ms steps taken so far
    hist            \* history kept for the properties, never read by an action
                    \* of the code: consecutive task failures, the time since
                    \* the 5th of them, whether a task function has been called
                    \* since the drainer started, and the state the circuit
                    \* was in when a success last closed it, the number of
                    \* drainers, and the time since executeGmailRequest last
                    \* caught a 429 error

rlvars == <<limits, tokens, queue, tasks, processing, pc, cur, wakeIn, cb,
            retryAttempts, sinceLast, waiter, phase, ticks, hist>>

\* executeGmailRequest
VARIABLES
    wrappers,       \* the executeGmailRequest calls awaiting their execute():
                    \* by task id, the locals quotaUsed and quotaUnits
    quotaStored     \* sessionStorage 'gmail_quota_used'

gmvars == <<wrappers, quotaStored>>

\* EmailSender
VARIABLES
    items,          \* #queue: status and attempts of each item, in queue order
    esProcessing,   \* #processing
    esPaused,       \* #paused
    progress,       \* #progress: total, sent, failed
    failedEmails,   \* #failedEmails: positions of the items pushed, in order
    sentEmails,     \* #sentEmails.length
    loops,          \* the activations of #processSequential in progress
    lastCall,       \* the public call the last step made and what it returned,
                    \* or the class of the error a loop handled in it;
                    \* "none" after any other step of a loop
    emitted         \* the notifications the last step passed to eventBus.emit
                    \* (progress notifications left out)

esvars == <<items, esProcessing, esPaused, progress, failedEmails, sentEmails,
            loops, lastCall, emitted>>

\* SmartCache
VARIABLES
    cNow,           \* Date.now(), in ticks
    cOrder,         \* the keys of #cache in the Map's iteration order
    cEntry,         \* #cache: the entry of each key (timestamp, ttl, value, and
                    \* setAt, the time of the set() that stored it, which the
                    \* code does not keep)
    cStats,         \* #stats: evictions and autoCleanups (hits and misses,
                    \* which nothing reads back but getStats, are left out)
    cReclaimed,     \* the value objects the runtime has reclaimed
    cRegistered,    \* #registry: <<value, key>> registered, callback not yet run
    cLast           \* the call the last step made and what it returned

scvars == <<cNow, cOrder, cEntry, cStats, cReclaimed, cRegistered, cLast>>

\* EmailDownloader
VARIABLES
    dlProcessing,   \* #processing
    dlPaused,       \* #paused
    dlCancelled,    \* #cancelled
    dlProgress,     \* #progress: total, processed, attachments, failed
    dlLoop,         \* where download() stands: the await it is at, its chunk
                    \* and the message being fetched
    dlEmitted       \* the notifications the last step emitted

dlvars == <<dlProcessing, dlPaused, dlCancelled, dlProgress, dlLoop, dlEmitted>>

vars == <<rlvars, esvars, scvars, gmvars, dlvars>>

\* what the steps of each component leave alone
notRL == <<esvars, scvars, gmvars, dlvars>>
notES == <<rlvars, scvars, gmvars, dlvars>>
notSC == <<rlvars, esvars, gmvars, dlvars>>
notGM == <<esvars, scvars, dlvars>>
notDL == <<rlvars, esvars, scvars, gmvars>>

(* ------------------------------ helpers ------------------------------- *)

Min(a, b) == IF a < b THEN a ELSE b
Max(a, b) == IF a > b THEN a ELSE b

Range(s) == { s[i] : i \in 1..Len(s) }

RECURSIVE Pow(_, _)
Pow(b, e) == IF e <= 0 THEN 1 ELSE b * Pow(b, e - 1)

NoTask ==
    [live |-> FALSE, priority |-> 0, retries |-> 0, attempts |-> 0,
     timeout |-> 0, age |-> 0, settled |-> "no", calls |-> 0, fnError |-> FALSE]

\* openAge is Date.now() - openedAt, kept while the state is "open" (the only
\* state in which the code reads openedAt)
NoCircuit == [present |-> FALSE, state |-> "closed", failures |-> 0, openAge |-> 0]

NoHistory ==
    [consec |-> 0, fifthAge |-> -1, started |-> FALSE, closedFrom |-> "none",
     drainers |-> 0, quotaAge |-> -1, probe |-> 0]

NoWaiter == [active |-> FALSE, units |-> 0, wakeIn |-> 0]

NoWrapper == [active |-> FALSE, quotaUsed |-> 0, quotaUnits |-> 0]

\* a task object nothing refers to any more is dropped from the table; an
\* executeGmailRequest still awaiting the task's promise refers to it
Collect(tk, q, c) ==
    [id \in IDs |-> IF id \in Range(q) \/ id = c \/ wrappers[id].active
                    THEN tk[id] ELSE NoTask]

\* task.resolve / task.reject: a promise settles once
Settle(tk, id, how) ==
    IF id \in IDs /\ tk[id].settled = "no"
    THEN [tk EXCEPT ![id].settled = how]
    ELSE tk

\* task.reject(error) with the error task.fn() threw, 314
SettleWithFnError(tk, id) ==
    IF id \in IDs /\ tk[id].settled = "no"
    THEN [tk EXCEPT ![id].settled = "rejected", ![id].fnError = TRUE]
    ELSE tk

\* limit.burst || limit.rate
MaxTokens(l) == IF l.burst # 0 THEN l.burst ELSE l.rate

(* ------------------------- #enqueue (255-272) ------------------------- *)

\* queue.findIndex(t => t.priority < task.priority), 0 for -1
InsertIndex(tk, q, p) ==
    LET hits == { i \in 1..Len(q) : tk[q[i]].priority < p }
    IN  IF hits = {} THEN 0 ELSE CHOOSE i \in hits : \A j \in hits : i <= j

Enqueue(tk, q, id) ==
    LET i == InsertIndex(tk, q, tk[id].priority)
    IN  IF i = 0
        THEN Append(q, id)
        ELSE SubSeq(q, 1, i - 1) \o <<id>> \o SubSeq(q, i, Len(q))

\* queue.shift()
Shift(q) == IF q = <<>> THEN q ELSE Tail(q)

(* ---------------------- circuit breaker (400-461) --------------------- *)

\* a #closeCircuit that forgets the counter
CloseCircuitKeepingCount(c) ==
    IF c.present /\ c.state # "closed"
    THEN [c EXCEPT !.state = "closed", !.openAge = 0]
    ELSE c

\* #isCircuitOpen: the value it returns
IsCircuitOpen(c) ==
    /\ c.present
    /\ c.state = "open"
    /\ ~(c.openAge > CircuitTimeout)

\* #isCircuitOpen: the state it leaves behind
CircuitAfterCheck(c) ==
    IF c.present /\ c.state = "open" /\ c.openAge > CircuitTimeout
    THEN [c EXCEPT !.state = "half-open", !.openAge = 0]
    ELSE c

OpenCircuit ==
    [present |-> TRUE, state |-> "open", failures |-> 0, openAge |-> 0]

CloseCircuit(c) ==
    IF c.present /\ c.state # "closed"
    THEN [c EXCEPT !.state = "closed", !.failures = 0, !.openAge = 0]
    ELSE c

IncrementFailures(c) ==
    LET st == IF c.present THEN c ELSE [NoCircuit EXCEPT !.present = TRUE]
        f  == st.failures + 1
    IN  IF f >= FailureThreshold /\ st.state = "closed"
        THEN OpenCircuit
        ELSE [st EXCEPT !.failures = f]

(* ------------------------- pacing (346-396) --------------------------- *)

\* #calculateWaitTime, with since = now - sinceLast; limits here keep
\* interval / rate whole
CalculateWaitTime(l, since, units, jitter) ==
    LET minInterval == (l.interval \div l.rate) * units
    IN  IF since >= minInterval THEN 0
        ELSE Max(0, minInterval - since + jitter)

\* the largest minInterval #calculateWaitTime can compute here
SinceCap ==
    LET all == { (l.interval \div l.rate) * u : l \in Limits \cup {InitialLimit, DefaultLimit},
                                               u \in WaitUnits \cup {1} }
    IN  CHOOSE m \in all : \A x \in all : x <= m

\* #calculateBackoff with Math.random() = r/2
CalculateBackoff(attempts, r) ==
    LET baseDelay == Min(BackoffBase * Pow(BackoffMultiplier, attempts - 1), MaxBackoff)
    IN  baseDelay + (baseDelay * (r - 1)) \div 4

\* one firing of the refill timer; limits here keep rate / (1000 / interval) whole
RefillRate(l) == (l.rate * l.interval) \div 1000

Refill(tok, l) ==
    IF tok < MaxTokens(l) THEN Min(MaxTokens(l), tok + RefillRate(l)) ELSE tok

RECURSIVE RefillN(_, _, _)
RefillN(tok, l, k) ==
    IF k <= 0 \/ tok >= MaxTokens(l) THEN tok ELSE RefillN(Refill(tok, l), l, k - 1)

(* --------------------------- control states --------------------------- *)

\* the drainer is inside a synchronous run: nothing else can execute
Urgent == pc \in {"top", "fulfilled", "failed"}

\* an executeGmailRequest whose execute() has settled: its continuation is a
\* pending microtask
PendingWrapper == \E id \in IDs : wrappers[id].active /\ tasks[id].settled # "no"

\* callers' synchronous code may run: the drainer is at an await and no
\* continuation is pending
CallerMayRun == ~Urgent /\ ~PendingWrapper

\* timers and the results of remote calls are delivered from the event loop,
\* which runs only once the pending continuations have run
EventLoopMayRun == ~Urgent /\ pc # "waited" /\ ~PendingWrapper

FreeIds ==
    { id \in IDs : id \notin Range(queue) /\ id # cur /\ ~wrappers[id].active }

\* what is left of each sleep in progress
Sleepers ==
    (IF pc \in {"waiting", "backoff"} THEN {wakeIn} ELSE {})
      \cup (IF waiter.active THEN {waiter.wakeIn} ELSE {})

(* ------------------------------- Init --------------------------------- *)

\* the constructor, then setLimit(resource, InitialLimit) on a new resource
RLInit ==
    /\ limits = InitialLimit
    /\ tokens = MaxTokens(InitialLimit)
    /\ queue = <<>>
    /\ tasks = [id \in IDs |-> NoTask]
    /\ processing = FALSE
    /\ pc = "idle"
    /\ cur = 0
    /\ wakeIn = 0
    /\ cb = NoCircuit
    /\ retryAttempts = -1
    /\ sinceLast = SinceCap
    /\ waiter = NoWaiter
    /\ phase = 0
    /\ ticks = 0
    /\ hist = NoHistory

(* ------------------------- execute (30-62) ---------------------------- *)

\* a guard that never sees the flag
NeverProcessing(flag) ==
    FALSE

\* #isProcessing(resource), 465-467
IsProcessing(flag) ==
    flag

\* the task object execute() makes
NewId == CHOOSE i \in FreeIds : \A j \in FreeIds : i <= j

\* the task admitted while the circuit is half-open and not yet settled
ProbeOutstanding ==
    /\ hist.probe # 0
    /\ tasks[hist.probe].live
    /\ tasks[hist.probe].settled = "no"

\* history: the probe after execute() has admitted task id
ProbeAfter(id) ==
    IF CircuitAfterCheck(cb).present /\ CircuitAfterCheck(cb).state = "half-open"
    THEN IF ProbeOutstanding THEN hist.probe ELSE id
    ELSE 0

\* execute(fn, resource, {priority, retries, timeout}) while the circuit lets it in:
\* the task is queued and #processQueue starts a drainer unless one is running
Execute(p, r, to) ==
    /\ CallerMayRun
    /\ ~IsCircuitOpen(cb)
    /\ FreeIds # {}
    /\ LET id == NewId
           tk == [tasks EXCEPT ![id] =
                    [live |-> TRUE, priority |-> p, retries |-> r, attempts |-> 0,
                     timeout |-> to, age |-> 0, settled |-> "no", calls |-> 0,
                     fnError |-> FALSE]]
       IN  /\ tasks' = tk
           /\ queue' = Enqueue(tk, queue, id)
    /\ cb' = CircuitAfterCheck(cb)
    /\ IF IsProcessing(processing)
       THEN /\ UNCHANGED <<processing, pc>>
            /\ hist' = [hist EXCEPT !.probe = ProbeAfter(NewId)]
       ELSE /\ processing' = TRUE
            /\ pc' = "top"
            /\ hist' = [hist EXCEPT !.drainers = @ + 1, !.probe = ProbeAfter(NewId)]
    /\ UNCHANGED <<limits, tokens, cur, wakeIn, retryAttempts, sinceLast,
                   waiter, phase, ticks>>

ExecuteAccepted(p, r, to) ==
    /\ Execute(p, r, to)
    /\ UNCHANGED notRL

\* execute() while the circuit is open: it throws before a task exists
ExecuteRejected ==
    /\ CallerMayRun
    /\ IsCircuitOpen(cb)
    /\ UNCHANGED rlvars
    /\ UNCHANGED notRL

(* --------------------- #processQueue (274-340) ------------------------ *)

\* a timeout check that never fires
NeverTimedOut(t) ==
    FALSE

\* Date.now() - task.addedAt > task.timeout, 288
TimedOut(t) ==
    t.age > t.timeout

\* the head of the while loop, up to `await this.wait(resource)`
DrainTop(jitter) ==
    /\ pc = "top"
    /\ IF queue = <<>>
       THEN \* the loop ends; finally clears the flag
            /\ processing' = FALSE
            /\ pc' = "idle"
            /\ hist' = [hist EXCEPT !.started = FALSE, !.drainers = @ - 1]
            /\ UNCHANGED <<queue, tasks, tokens, cur, wakeIn>>
       ELSE LET task == queue[1] IN
            IF TimedOut(tasks[task])
            THEN \* queue.shift(); task.reject('Task timeout'); continue
                 /\ queue' = Shift(queue)
                 /\ tasks' = Collect(Settle(tasks, task, "rejected"), Shift(queue), 0)
                 /\ UNCHANGED <<processing, pc, tokens, cur, wakeIn, hist>>
            ELSE \* wait(resource): a token is there, or sleep for one
                 /\ cur' = task
                 /\ IF tokens >= 1
                    THEN /\ tokens' = tokens - 1
                         /\ pc' = "waited"
                         /\ UNCHANGED wakeIn
                    ELSE /\ pc' = "waiting"
                         /\ wakeIn' = CalculateWaitTime(limits, sinceLast, 1, jitter)
                         /\ UNCHANGED tokens
                 /\ UNCHANGED <<queue, tasks, processing, hist>>
    /\ UNCHANGED <<limits, cb, retryAttempts, sinceLast, waiter, phase, ticks>>
    /\ UNCHANGED notRL

\* wait() returned at once; the drainer goes on and calls task.fn()
Invoke ==
    /\ pc = "waited"
    /\ pc' = "running"
    /\ tasks' = [tasks EXCEPT ![cur].calls = @ + 1]
    /\ hist' = [hist EXCEPT !.started = TRUE]
    /\ UNCHANGED <<limits, tokens, queue, processing, cur, wakeIn, cb,
                   retryAttempts, sinceLast, waiter, phase, ticks>>
    /\ UNCHANGED notRL

\* wait()'s sleep ends: it takes what tokens there are, and task.fn() is called
WaitWake ==
    /\ pc = "waiting"
    /\ wakeIn = 0
    /\ tokens' = Max(0, tokens - 1)
    /\ pc' = "running"
    /\ tasks' = [tasks EXCEPT ![cur].calls = @ + 1]
    /\ hist' = [hist EXCEPT !.started = TRUE]
    /\ UNCHANGED <<limits, queue, processing, cur, wakeIn, cb,
                   retryAttempts, sinceLast, waiter, phase, ticks>>
    /\ UNCHANGED notRL

\* the promise task.fn() returned is fulfilled
FnFulfil ==
    /\ pc = "running"
    /\ pc' = "fulfilled"
    /\ UNCHANGED <<limits, tokens, queue, tasks, processing, cur, wakeIn, cb,
                   retryAttempts, sinceLast, waiter, phase, ticks, hist>>
    /\ UNCHANGED notRL

\* the promise task.fn() returned is rejected
FnReject ==
    /\ pc = "running"
    /\ cb.failures < MaxFailures
    /\ pc' = "failed"
    /\ UNCHANGED <<limits, tokens, queue, tasks, processing, cur, wakeIn, cb,
                   retryAttempts, sinceLast, waiter, phase, ticks, hist>>
    /\ UNCHANGED notRL

\* the success branch, 300-307, and line 335
DrainFulfilled ==
    /\ pc = "fulfilled"
    /\ queue' = Shift(queue)
    /\ tasks' = Collect(Settle(tasks, cur, "resolved"), Shift(queue), 0)
    /\ retryAttempts' = 0
    /\ cb' = CloseCircuit(cb)
    /\ sinceLast' = 0
    /\ cur' = 0
    /\ pc' = "top"
    /\ hist' = [hist EXCEPT !.consec = 0,
                             !.closedFrom = IF cb.present /\ cb.state # "closed"
                                            THEN cb.state ELSE @]
    /\ UNCHANGED <<limits, tokens, processing, wakeIn, waiter, phase, ticks>>
    /\ UNCHANGED notRL

\* the failure branch, 309-332: reject when the budget is spent, else back off
DrainFailed(rnd) ==
    /\ pc = "failed"
    /\ LET attempts == tasks[cur].attempts + 1
           tk       == [tasks EXCEPT ![cur].attempts = attempts]
       IN  IF attempts >= tasks[cur].retries
           THEN /\ queue' = Shift(queue)
                /\ tasks' = Collect(SettleWithFnError(tk, cur), Shift(queue), 0)
                /\ cb' = IncrementFailures(cb)
                /\ sinceLast' = 0
                /\ cur' = 0
                /\ pc' = "top"
                /\ hist' = [hist EXCEPT
                              !.consec   = Min(FailureThreshold, @ + 1),
                              !.fifthAge = IF hist.consec + 1 = FailureThreshold
                                           THEN 0 ELSE @]
                /\ UNCHANGED wakeIn
           ELSE /\ queue' = Shift(queue)
                /\ tasks' = Collect(tk, Shift(queue), cur)
                /\ pc' = "backoff"
                /\ wakeIn' = CalculateBackoff(attempts, rnd)
                /\ UNCHANGED <<cb, sinceLast, cur, hist>>
    /\ UNCHANGED <<limits, tokens, processing, retryAttempts, waiter, phase, ticks>>
    /\ UNCHANGED notRL

\* the backoff sleep ends: the task is queued again, 330 and 335
BackoffWake ==
    /\ pc = "backoff"
    /\ wakeIn = 0
    /\ queue' = Enqueue(tasks, queue, cur)
    /\ sinceLast' = 0
    /\ cur' = 0
    /\ pc' = "top"
    /\ UNCHANGED <<limits, tokens, tasks, processing, wakeIn, cb, retryAttempts,
                   waiter, phase, ticks, hist>>
    /\ UNCHANGED notRL

(* ------------------------ wait (67-88), public ------------------------ *)

WaitCall(units, jitter) ==
    /\ CallerMayRun
    /\ ~waiter.active
    /\ IF tokens >= units
       THEN /\ tokens' = tokens - units
            /\ UNCHANGED waiter
       ELSE /\ waiter' = [active |-> TRUE, units |-> units,
                          wakeIn |-> CalculateWaitTime(limits, sinceLast, units, jitter)]
            /\ UNCHANGED tokens
    /\ UNCHANGED <<limits, queue, tasks, processing, pc, cur, wakeIn, cb,
                   retryAttempts, sinceLast, phase, ticks, hist>>
    /\ UNCHANGED notRL

WaiterWake ==
    /\ EventLoopMayRun
    /\ waiter.active
    /\ waiter.wakeIn = 0
    /\ tokens' = Max(0, tokens - waiter.units)
    /\ waiter' = NoWaiter
    /\ UNCHANGED <<limits, queue, tasks, processing, pc, cur, wakeIn, cb,
                   retryAttempts, sinceLast, phase, ticks, hist>>
    /\ UNCHANGED notRL

(* ------------------ setLimit (101-110), reset (115-134) --------------- *)

\* the resource has a token entry already, so only the limit changes
SetLimit(l) ==
    /\ CallerMayRun
    /\ limits' = l
    /\ UNCHANGED <<tokens, queue, tasks, processing, pc, cur, wakeIn, cb,
                   retryAttempts, sinceLast, waiter, phase, ticks, hist>>
    /\ UNCHANGED notRL

RECURSIVE RejectAll(_, _)
RejectAll(tk, q) ==
    IF q = <<>> THEN tk ELSE RejectAll(Settle(tk, Head(q), "rejected"), Tail(q))

\* reset(resource): every queued task is rejected, then queue.clear() is called
\* on the Array that #enqueue made, which throws before anything is removed
Reset ==
    /\ CallerMayRun
    /\ tokens' = MaxTokens(limits)
    /\ retryAttempts' = -1
    /\ cb' = NoCircuit
    /\ tasks' = RejectAll(tasks, queue)
    /\ hist' = [NoHistory EXCEPT !.started = hist.started, !.drainers = hist.drainers]
    /\ UNCHANGED <<limits, queue, processing, pc, cur, wakeIn, sinceLast,
                   waiter, phase, ticks>>
    /\ UNCHANGED notRL

\* queues.get(resource)?.size: the queue is an Array, which has a length and
\* no size property, so the read yields undefined
ArraySize(q) == [defined |-> FALSE, val |-> 0]

\* getStatus().queueSize (143): `<size> || 0`
StatusQueueSize ==
    IF ArraySize(queue).defined /\ ArraySize(queue).val # 0
    THEN ArraySize(queue).val
    ELSE 0

\* getStatus(resource) calls #isCircuitOpen
GetStatus ==
    /\ CallerMayRun
    /\ cb' = CircuitAfterCheck(cb)
    /\ UNCHANGED <<limits, tokens, queue, tasks, processing, pc, cur, wakeIn,
                   retryAttempts, sinceLast, waiter, phase, ticks, hist>>
    /\ UNCHANGED notRL

(* -------------------------------- time -------------------------------- *)

\* d ms pass: every age grows, every sleep shrinks, and the refill timer
\* (378-396) fires at each multiple of 100 ms passed
Advance(d) ==
    /\ EventLoopMayRun
    /\ d > 0
    /\ \A w \in Sleepers : d <= w
    /\ phase' = (phase + d) % RefillPeriod
    /\ tokens' = RefillN(tokens, limits, (phase + d) \div RefillPeriod)
    /\ tasks' = [id \in IDs |->
                   IF tasks[id].live
                   THEN [tasks[id] EXCEPT !.age = Min(@ + d, tasks[id].timeout + 1)]
                   ELSE tasks[id]]
    /\ cb' = IF cb.present /\ cb.state = "open"
             THEN [cb EXCEPT !.openAge = Min(@ + d, CircuitTimeout + 1)]
             ELSE cb
    /\ sinceLast' = Min(sinceLast + d, SinceCap)
    /\ wakeIn' = IF pc \in {"waiting", "backoff"} THEN wakeIn - d ELSE wakeIn
    /\ waiter' = IF waiter.active THEN [waiter EXCEPT !.wakeIn = @ - d] ELSE waiter
    /\ hist' = [hist EXCEPT
                  !.fifthAge = IF @ >= 0 THEN Min(@ + d, CircuitTimeout + 1) ELSE @,
                  !.quotaAge = IF @ >= 0 THEN Min(@ + d, CircuitTimeout + 1) ELSE @]
    /\ UNCHANGED <<limits, queue, processing, pc, cur, retryAttempts>>
    /\ UNCHANGED notRL

\* one period of the refill timer
Tick ==
    /\ ticks < MaxTicks
    /\ ticks' = ticks + 1
    /\ Advance(RefillPeriod)

\* a long pause: the circuit's timeout and a task's default timeout run out
Elapse ==
    /\ Advance(CircuitTimeout + RefillPeriod)
    /\ UNCHANGED ticks

\* time runs to the next sleeper's deadline
SleepOut ==
    /\ Sleepers # {}
    /\ \E w \in Sleepers : Advance(w)
    /\ UNCHANGED ticks

(* ==================== executeGmailRequest (152-194) =================== *)

\* sessionStorage holds the units used so far today
GMInit ==
    /\ wrappers = [id \in IDs |-> NoWrapper]
    /\ quotaStored = QuotaPerDay - MaxQuotaLeft

\* executeGmailRequest(fn, {quotaUnits}) up to `await this.execute(...)`,
\* 153-173: the quota check passes and execute() queues the task
GmailAccepted(units) ==
    /\ quotaStored + units <= QuotaPerDay
    /\ Execute(0, DefaultRetries, DefaultTimeout)
    /\ wrappers' = [wrappers EXCEPT ![NewId] =
                      [active |-> TRUE, quotaUsed |-> quotaStored, quotaUnits |-> units]]
    /\ UNCHANGED quotaStored
    /\ UNCHANGED notGM

\* executeGmailRequest throws: the daily quota is spent (165-167), or
\* execute() finds the circuit open and its error, which is no quota error,
\* passes through the catch clause
GmailRefused(units) ==
    /\ CallerMayRun
    /\ quotaStored + units > QuotaPerDay \/ IsCircuitOpen(cb)
    /\ UNCHANGED vars

\* the wrapper's own task leaves the table with it unless the queue holds it
Unwrap(tk, id) ==
    [i \in IDs |-> IF i = id /\ i \notin Range(queue) /\ i # cur THEN NoTask ELSE tk[i]]

\* execute() resolved: lines 176-178
GmailReturn(id) ==
    /\ ~Urgent
    /\ wrappers[id].active
    /\ tasks[id].settled = "resolved"
    /\ quotaStored' = wrappers[id].quotaUsed + wrappers[id].quotaUnits
    /\ wrappers' = [wrappers EXCEPT ![id] = NoWrapper]
    /\ tasks' = Unwrap(tasks, id)
    /\ UNCHANGED <<limits, tokens, queue, processing, pc, cur, wakeIn, cb,
                   retryAttempts, sinceLast, waiter, phase, ticks, hist>>
    /\ UNCHANGED notGM

\* execute() rejected: the catch clause, 180-192. task.fn() fails here with a
\* 429 error; 'Task timeout' is no quota error
GmailCatch(id) ==
    /\ ~Urgent
    /\ wrappers[id].active
    /\ tasks[id].settled = "rejected"
    /\ IF tasks[id].fnError
       THEN /\ cb' = OpenCircuit
            /\ hist' = [hist EXCEPT !.quotaAge = 0]
       ELSE UNCHANGED <<cb, hist>>
    /\ wrappers' = [wrappers EXCEPT ![id] = NoWrapper]
    /\ tasks' = Unwrap(tasks, id)
    /\ UNCHANGED <<limits, tokens, queue, processing, pc, cur, wakeIn,
                   retryAttempts, sinceLast, waiter, phase, ticks>>
    /\ UNCHANGED quotaStored
    /\ UNCHANGED notGM

(* ======================= EmailSender (sequential) ===================== *)

NoLoop == [pc |-> "none", idx |-> 0, delay |-> FALSE]

NoCall == [op |-> "none", ok |-> FALSE, unfinished |-> FALSE]

Call(op, ok) ==
    [op |-> op, ok |-> ok, unfinished |-> esProcessing \/ esPaused]

CountStatus(its, st) == Cardinality({ i \in Items : its[i].status = st })

\* a loop that skips nothing: the item at position k, whatever its status
NextUnskipped(its, k) ==
    IF k \in Items THEN k ELSE 0

\* the first item at or after position k that the loop does not skip; 0: none
NextPending(its, k) ==
    LET c == { j \in Items : j >= k /\ its[j].status = "pending" }
    IN  IF c = {} THEN 0 ELSE CHOOSE j \in c : \A x \in c : j <= x

FreeLoops == { l \in LoopIds : loops[l].pc = "none" }

\* processCSVDirect (72-105) has prepared the queue
ESInit ==
    /\ items = [i \in Items |-> [status |-> "pending", attempts |-> 0]]
    /\ esProcessing = FALSE
    /\ esPaused = FALSE
    /\ progress = [total |-> MaxItems, sent |-> 0, failed |-> 0]
    /\ failedEmails = <<>>
    /\ sentEmails = 0
    /\ loops = [l \in LoopIds |-> NoLoop]
    /\ lastCall = NoCall
    /\ emitted = {}

\* #processSequential (524-605) from position k up to its next await, with the
\* queue its and the flags proc and paus: it starts the send of the next pending
\* item, or it leaves the loop and startBatch goes through #onBatchComplete and
\* its finally clause (244-252); ev: what the step has emitted before
ProcessFrom(l, k, its, proc, paus, d, ev) ==
    LET np == NextPending(its, k)
    IN  IF proc /\ ~paus /\ np # 0
        THEN /\ loops' = [loops EXCEPT ![l] = [pc |-> "sending", idx |-> np, delay |-> d]]
             /\ esProcessing' = proc
             /\ emitted' = ev
        ELSE /\ loops' = [loops EXCEPT ![l] = NoLoop]
             /\ esProcessing' = FALSE
             /\ emitted' = ev \cup {"complete"}

\* startBatch (197-253) up to its first await, on the queue its and the flags
\* proc and paus that its caller leaves
StartBatchFrom(its, proc, paus, d, ev) ==
    IF proc /\ ~paus
    THEN /\ esProcessing' = proc
         /\ esPaused' = paus
         /\ emitted' = ev
         /\ UNCHANGED loops
    ELSE /\ FreeLoops # {}
         /\ esPaused' = FALSE
         /\ ProcessFrom(CHOOSE l \in FreeLoops : \A m \in FreeLoops : l <= m,
                        1, its, TRUE, FALSE, d, ev \cup {"start"})

\* startBatch({delayBetweenEmails: d})
StartBatch(d) ==
    /\ StartBatchFrom(items, esProcessing, esPaused, d, {})
    /\ lastCall' = Call("startBatch", ~(esProcessing /\ ~esPaused))
    /\ UNCHANGED <<items, progress, failedEmails, sentEmails>>
    /\ UNCHANGED notES

\* pause (258-279)
Pause ==
    /\ IF ~esProcessing \/ esPaused
       THEN /\ lastCall' = Call("pause", FALSE)
            /\ emitted' = {}
            /\ UNCHANGED esPaused
       ELSE /\ lastCall' = Call("pause", TRUE)
            /\ emitted' = {"paused"}
            /\ esPaused' = TRUE
    /\ UNCHANGED <<items, esProcessing, progress, failedEmails, sentEmails, loops>>
    /\ UNCHANGED notES

\* resume (284-311)
Resume ==
    /\ IF ~esPaused
       THEN /\ lastCall' = Call("resume", FALSE)
            /\ emitted' = {}
            /\ UNCHANGED <<esProcessing, esPaused, loops>>
       ELSE /\ lastCall' = Call("resume", TRUE)
            /\ IF \E i \in Items : items[i].status = "pending"
               THEN StartBatchFrom(items, esProcessing, FALSE, TRUE, {"resumed"})
               ELSE /\ esPaused' = FALSE
                    /\ emitted' = {"resumed"}
                    /\ UNCHANGED <<esProcessing, loops>>
    /\ UNCHANGED <<items, progress, failedEmails, sentEmails>>
    /\ UNCHANGED notES

\* stop (316-344)
Stop ==
    /\ IF ~esProcessing
       THEN /\ lastCall' = Call("stop", FALSE)
            /\ emitted' = {}
            /\ UNCHANGED <<esProcessing, esPaused, items>>
       ELSE /\ lastCall' = Call("stop", TRUE)
            /\ emitted' = {"stopped"}
            /\ esProcessing' = FALSE
            /\ esPaused' = FALSE
            /\ items' = [i \in Items |->
                           IF items[i].status = "pending"
                           THEN [items[i] EXCEPT !.status = "cancelled"]
                           ELSE items[i]]
    /\ UNCHANGED <<progress, failedEmails, sentEmails, loops>>
    /\ UNCHANGED notES

\* retryFailed (384-410)
RetryFailed ==
    /\ IF failedEmails = <<>>
       THEN /\ lastCall' = Call("retryFailed", FALSE)
            /\ emitted' = {}
            /\ UNCHANGED <<items, esProcessing, esPaused, progress, failedEmails, loops>>
       ELSE LET its == [i \in Items |->
                          IF i \in Range(failedEmails)
                          THEN [status |-> "pending", attempts |-> 0]
                          ELSE items[i]]
            IN  /\ lastCall' = Call("retryFailed", TRUE)
                /\ items' = its
                /\ failedEmails' = <<>>
                /\ progress' = [progress EXCEPT !.failed = 0]
                /\ StartBatchFrom(its, esProcessing, esPaused, TRUE, {})
    /\ UNCHANGED sentEmails
    /\ UNCHANGED notES

\* the remote call of loop l succeeds: the callback (547-562) marks the item
\* sent, and the loop goes on to its delay or to the next item (565-569)
SendOk(l) ==
    /\ loops[l].pc = "sending"
    /\ progress.sent < MaxSent
    /\ LET i   == loops[l].idx
           its == [items EXCEPT ![i].status = "sent"]
       IN  /\ items' = its
           /\ IF loops[l].delay /\ i < MaxItems
              THEN /\ loops' = [loops EXCEPT ![l].pc = "delay"]
                   /\ emitted' = {}
                   /\ UNCHANGED esProcessing
              ELSE ProcessFrom(l, i + 1, its, esProcessing, esPaused, loops[l].delay, {})
    /\ progress' = [progress EXCEPT !.sent = @ + 1]
    /\ sentEmails' = sentEmails + 1
    /\ lastCall' = NoCall
    /\ UNCHANGED <<esPaused, failedEmails>>
    /\ UNCHANGED notES

\* error.message?.includes('quota') (594)
MessageNamesQuota(e) == e = "quota"

\* executeGmailRequest of loop l rejects with an error of class e: the catch
\* clause (571-602), #onQuotaExceeded (815-832)
SendFail(l, e) ==
    /\ loops[l].pc = "sending"
    /\ LET i        == loops[l].idx
           attempts == items[i].attempts + 1
           its      == [items EXCEPT ![i].attempts = attempts,
                                     ![i].status = IF attempts >= MaxSendAttempts
                                                   THEN "failed" ELSE @]
       IN  /\ items' = its
           /\ IF attempts >= MaxSendAttempts
              THEN /\ progress' = [progress EXCEPT !.failed = @ + 1]
                   /\ failedEmails' = Append(failedEmails, i)
              ELSE UNCHANGED <<progress, failedEmails>>
           /\ IF MessageNamesQuota(e)
              THEN /\ esPaused' = IF esProcessing /\ ~esPaused THEN TRUE ELSE esPaused
                   /\ loops' = [loops EXCEPT ![l] = NoLoop]
                   /\ esProcessing' = FALSE
                   /\ emitted' = (IF esProcessing /\ ~esPaused THEN {"paused"} ELSE {})
                                  \cup {"quota_exceeded", "complete"}
              ELSE /\ UNCHANGED esPaused
                   /\ ProcessFrom(l, i + 1, its, esProcessing, esPaused, loops[l].delay, {})
    /\ lastCall' = Call(e, FALSE)
    /\ UNCHANGED sentEmails
    /\ UNCHANGED notES

\* the sleep between two items ends (568)
DelayDone(l) ==
    /\ loops[l].pc = "delay"
    /\ ProcessFrom(l, loops[l].idx + 1, items, esProcessing, esPaused, loops[l].delay, {})
    /\ lastCall' = NoCall
    /\ UNCHANGED <<items, esPaused, progress, failedEmails, sentEmails>>
    /\ UNCHANGED notES

(* ============================= SmartCache ============================= *)

NoEntry == [timestamp |-> 0, setAt |-> 0, ttl |-> 0, val |-> 0, ref |-> FALSE]

NoCacheCall == [op |-> "none", key |-> "", found |-> FALSE]

\* the constructor (474-494)
SCInit ==
    /\ cNow = 0
    /\ cOrder = <<>>
    /\ cEntry = [k \in Keys |-> NoEntry]
    /\ cStats = [evictions |-> 0, autoCleanups |-> 0]
    /\ cReclaimed = {}
    /\ cRegistered = {}
    /\ cLast = NoCacheCall

\* the state of #cache and of the eviction counter, for the operators below
CacheState(ord, ent, ev) == [order |-> ord, entry |-> ent, evictions |-> ev]

CacheNow == CacheState(cOrder, cEntry, cStats.evictions)

\* Map.prototype.delete
MapDelete(ord, k) == SelectSeq(ord, LAMBDA x : x # k)

\* a delete that counts an eviction whether or not the key was there
DeleteCounting(c, k) ==
    CacheState(MapDelete(c.order, k), [c.entry EXCEPT ![k] = NoEntry], c.evictions + 1)

\* delete(key) (577-591)
Delete(c, k) ==
    IF k \in Range(c.order)
    THEN CacheState(MapDelete(c.order, k),
                    [c.entry EXCEPT ![k] = NoEntry],
                    c.evictions + 1)
    ELSE c

\* keys.forEach(key => this.delete(key))
RECURSIVE DeleteAll(_, _)
DeleteAll(c, ks) ==
    IF ks = <<>> THEN c ELSE DeleteAll(Delete(c, Head(ks)), Tail(ks))

\* entry.ttl && now - entry.timestamp > entry.ttl
Expired(e, now) == e.ttl # 0 /\ now - e.timestamp > e.ttl

\* entry.ref && entry.ref.deref() === undefined
Collected(e, reclaimed) == e.ref /\ e.val \in reclaimed

\* the loop of #evictOldest (648-656): the first key, in iteration order, of the
\* smallest timestamp; <<>> for null
OldestKey(c) ==
    LET ks == { i \in 1..Len(c.order) :
                  \A j \in 1..Len(c.order) :
                     /\ c.entry[c.order[i]].timestamp <= c.entry[c.order[j]].timestamp
                     /\ (c.entry[c.order[i]].timestamp = c.entry[c.order[j]].timestamp
                           => i <= j) }
    IN  IF ks = {} THEN <<>> ELSE <<c.order[CHOOSE i \in ks : TRUE]>>

\* `if (oldest)`: null and the empty string are falsy
Truthy(k) == k # <<>> /\ k # <<"">>

\* #evictOldest (647-661)
EvictOldest(c) ==
    LET oldest == OldestKey(c)
    IN  IF Truthy(oldest) THEN Delete(c, oldest[1]) ELSE c

\* set(key, value, {ttl}) (499-525); weak keeps its default, true
CacheSet(k, v, ttl) ==
    /\ v \notin cReclaimed
    /\ cStats.evictions < MaxCount
    /\ LET c0 == IF Len(cOrder) >= CacheMax THEN EvictOldest(CacheNow) ELSE CacheNow
           e  == [timestamp |-> cNow, setAt |-> cNow, ttl |-> ttl, val |-> v,
                  ref |-> v \in Objects]
       IN  /\ cOrder' = IF k \in Range(c0.order) THEN c0.order ELSE Append(c0.order, k)
           /\ cEntry' = [c0.entry EXCEPT ![k] = e]
           /\ cStats' = [cStats EXCEPT !.evictions = c0.evictions]
    /\ cRegistered' = IF v \in Objects THEN cRegistered \cup {<<v, k>>} ELSE cRegistered
    /\ cLast' = [op |-> "set", key |-> k, found |-> TRUE]
    /\ UNCHANGED <<cNow, cReclaimed>>
    /\ UNCHANGED notSC

\* get(key) (530-564); has(key) (569-572) is get(key) !== undefined
CacheGet(k, op) ==
    /\ cStats.evictions < MaxCount
    /\ LET live == /\ k \in Range(cOrder)
                   /\ ~Expired(cEntry[k], cNow)
                   /\ ~Collected(cEntry[k], cReclaimed)
           c1   == IF live
                   THEN CacheState(cOrder, [cEntry EXCEPT ![k].timestamp = cNow],
                                   cStats.evictions)
                   ELSE Delete(CacheNow, k)
       IN  /\ cOrder' = c1.order
           /\ cEntry' = c1.entry
           /\ cStats' = [cStats EXCEPT !.evictions = c1.evictions]
           /\ cLast' = [op |-> op, key |-> k, found |-> live]
    /\ UNCHANGED <<cNow, cReclaimed, cRegistered>>
    /\ UNCHANGED notSC

\* delete(key) called from outside
CacheDelete(k) ==
    /\ cStats.evictions < MaxCount
    /\ LET c1 == Delete(CacheNow, k)
       IN  /\ cOrder' = c1.order
           /\ cEntry' = c1.entry
           /\ cStats' = [cStats EXCEPT !.evictions = c1.evictions]
    /\ cLast' = [op |-> "delete", key |-> k, found |-> k \in Range(cOrder)]
    /\ UNCHANGED <<cNow, cReclaimed, cRegistered>>
    /\ UNCHANGED notSC

\* clear() (596-606)
CacheClear ==
    /\ cOrder' = <<>>
    /\ cEntry' = [k \in Keys |-> NoEntry]
    /\ cLast' = [op |-> "clear", key |-> "", found |-> FALSE]
    /\ UNCHANGED <<cNow, cStats, cReclaimed, cRegistered>>
    /\ UNCHANGED notSC

\* entries sorted by timestamp; the sort is stable, so ties keep iteration order
RECURSIVE ByTimestamp(_)
ByTimestamp(c) ==
    IF c.order = <<>> THEN <<>>
    ELSE LET k == OldestKey(c)[1]
         IN  <<k>> \o ByTimestamp(CacheState(MapDelete(c.order, k), c.entry, c.evictions))

\* cleanup(percentage) (624-632), percentage = pct / 100
CacheCleanup(pct) ==
    /\ cStats.evictions < MaxCount
    /\ LET n  == (Len(cOrder) * pct) \div 100
           c1 == DeleteAll(CacheNow, SubSeq(ByTimestamp(CacheNow), 1, n))
       IN  /\ cOrder' = c1.order
           /\ cEntry' = c1.entry
           /\ cStats' = [cStats EXCEPT !.evictions = c1.evictions]
    /\ cLast' = [op |-> "cleanup", key |-> "", found |-> FALSE]
    /\ UNCHANGED <<cNow, cReclaimed, cRegistered>>
    /\ UNCHANGED notSC

\* the periodic sweep of #startCleanupTimer (663-687)
CacheSweep ==
    /\ cStats.evictions < MaxCount
    /\ LET ks == SelectSeq(cOrder, LAMBDA k : \/ Expired(cEntry[k], cNow)
                                             \/ Collected(cEntry[k], cReclaimed))
           c1 == DeleteAll(CacheNow, ks)
       IN  /\ cOrder' = c1.order
           /\ cEntry' = c1.entry
           /\ cStats' = [cStats EXCEPT !.evictions = c1.evictions]
    /\ cLast' = [op |-> "sweep", key |-> "", found |-> FALSE]
    /\ UNCHANGED <<cNow, cReclaimed, cRegistered>>
    /\ UNCHANGED notSC

\* the runtime reclaims a value object; the cache holds objects only weakly
Reclaim(v) ==
    /\ v \in Objects \ cReclaimed
    /\ cReclaimed' = cReclaimed \cup {v}
    /\ cLast' = [op |-> "reclaim", key |-> "", found |-> FALSE]
    /\ UNCHANGED <<cNow, cOrder, cEntry, cStats, cRegistered>>
    /\ UNCHANGED notSC

\* the registry's callback for a reclaimed value: #handleFinalization (636-645)
HandleFinalization(v, k) ==
    /\ <<v, k>> \in cRegistered
    /\ v \in cReclaimed
    /\ cStats.autoCleanups < MaxCount
    /\ cRegistered' = cRegistered \ {<<v, k>>}
    /\ IF k \in Range(cOrder)
       THEN /\ cOrder' = MapDelete(cOrder, k)
            /\ cEntry' = [cEntry EXCEPT ![k] = NoEntry]
            /\ cStats' = [cStats EXCEPT !.autoCleanups = @ + 1]
       ELSE UNCHANGED <<cOrder, cEntry, cStats>>
    /\ cLast' = [op |-> "finalization", key |-> k, found |-> k \in Range(cOrder)]
    /\ UNCHANGED <<cNow, cReclaimed>>
    /\ UNCHANGED notSC

\* one tick of the clock
CacheTick ==
    /\ cNow < MaxNow
    /\ cNow' = cNow + 1
    /\ cLast' = NoCacheCall
    /\ UNCHANGED <<cOrder, cEntry, cStats, cReclaimed, cRegistered>>
    /\ UNCHANGED notSC

(* ============================ EmailDownloader ========================= *)

NoDownload == [pc |-> "none", chunk |-> 0, msg |-> 0]

\* the field initialisers (29-46)
DLInit ==
    /\ dlProcessing = FALSE
    /\ dlPaused = FALSE
    /\ dlCancelled = FALSE
    /\ dlProgress = [total |-> 0, processed |-> 0, attachments |-> 0, failed |-> 0]
    /\ dlLoop = NoDownload
    /\ dlEmitted = {}

\* chunkArray(messageIds, chunkSize): how many chunks, and the first and the
\* last message of chunk c
NumChunks == (MaxMessages + ChunkSize - 1) \div ChunkSize
ChunkFirst(c) == (c - 1) * ChunkSize + 1
ChunkLast(c) == Min(c * ChunkSize, MaxMessages)

\* where download() stands next and what #processing is then: the loop is over
\* (195-212)
LoopEnd(cancelled) ==
    IF cancelled
    THEN [loop |-> NoDownload, processing |-> FALSE]
    ELSE [loop |-> [pc |-> "exporting", chunk |-> 0, msg |-> 0], processing |-> TRUE]

\* #processChunk is entered and its first message is requested (358-366)
ProcessChunk(c) ==
    [loop |-> [pc |-> "fetching", chunk |-> c, msg |-> ChunkFirst(c)],
     processing |-> TRUE]

\* the head of the for loop for chunk c (175-187)
LoopTop(c, cancelled, paused) ==
    IF c > NumChunks THEN LoopEnd(cancelled)
    ELSE IF cancelled THEN LoopEnd(cancelled)
    ELSE IF paused
         THEN [loop |-> [pc |-> "pausedSleep", chunk |-> c, msg |-> 0],
               processing |-> TRUE]
         ELSE ProcessChunk(c)

\* message m of chunk c is done: the next message, the delay between chunks, or
\* the end of the loop (361, 189-192)
AfterMessage(c, m, cancelled) ==
    IF m < ChunkLast(c)
    THEN [loop |-> [pc |-> "fetching", chunk |-> c, msg |-> m + 1], processing |-> TRUE]
    ELSE IF c < NumChunks
         THEN [loop |-> [pc |-> "chunkDelay", chunk |-> c, msg |-> 0],
               processing |-> TRUE]
         ELSE LoopEnd(cancelled)

\* download(messageIds, options) (125-214), up to its first await
Download ==
    /\ ~dlProcessing
    /\ dlPaused' = FALSE
    /\ dlCancelled' = FALSE
    /\ dlProgress' = [total |-> MaxMessages, processed |-> 0, attachments |-> 0,
                      failed |-> 0]
    /\ dlEmitted' = {"start"}
    /\ LET n == LoopTop(1, FALSE, FALSE)
       IN  dlLoop' = n.loop /\ dlProcessing' = n.processing
    /\ UNCHANGED notDL

\* pause() (219-231)
DLPause ==
    /\ dlProcessing
    /\ ~dlPaused
    /\ dlPaused' = TRUE
    /\ dlEmitted' = {"paused"}
    /\ UNCHANGED <<dlProcessing, dlCancelled, dlProgress, dlLoop>>
    /\ UNCHANGED notDL

\* resume() (236-248)
DLResume ==
    /\ dlPaused
    /\ dlPaused' = FALSE
    /\ dlEmitted' = {"resumed"}
    /\ UNCHANGED <<dlProcessing, dlCancelled, dlProgress, dlLoop>>
    /\ UNCHANGED notDL

\* cancel() (253-266), returning true
DLCancel ==
    /\ dlProcessing
    /\ dlCancelled' = TRUE
    /\ dlPaused' = FALSE
    /\ dlEmitted' = {"cancelled"}
    /\ UNCHANGED <<dlProcessing, dlProgress, dlLoop>>
    /\ UNCHANGED notDL

\* the message arrives (368-378); att: the attachments it carries
FetchOk(att) ==
    /\ dlLoop.pc = "fetching"
    /\ IF att > 0
       THEN /\ dlLoop' = [dlLoop EXCEPT !.pc = "attaching"]
            /\ dlEmitted' = {}
            /\ UNCHANGED <<dlProcessing, dlProgress>>
       ELSE /\ dlProgress' = [dlProgress EXCEPT !.processed = @ + 1]
            /\ dlEmitted' = {"progress"}
            /\ LET n == AfterMessage(dlLoop.chunk, dlLoop.msg, dlCancelled)
               IN  dlLoop' = n.loop /\ dlProcessing' = n.processing
    /\ UNCHANGED <<dlPaused, dlCancelled>>
    /\ UNCHANGED notDL

\* a failed request that is counted as processed and as failed
FetchFailCountedTwice ==
    /\ dlLoop.pc = "fetching"
    /\ dlProgress' = [dlProgress EXCEPT !.failed = @ + 1, !.processed = @ + 1]
    /\ dlEmitted' = {"progress"}
    /\ LET n == AfterMessage(dlLoop.chunk, dlLoop.msg, dlCancelled)
       IN  dlLoop' = n.loop /\ dlProcessing' = n.processing
    /\ UNCHANGED <<dlPaused, dlCancelled>>
    /\ UNCHANGED notDL

\* the request for the message fails (380-384)
FetchFail ==
    /\ dlLoop.pc = "fetching"
    /\ dlProgress' = [dlProgress EXCEPT !.failed = @ + 1]
    /\ dlEmitted' = {"progress"}
    /\ LET n == AfterMessage(dlLoop.chunk, dlLoop.msg, dlCancelled)
       IN  dlLoop' = n.loop /\ dlProcessing' = n.processing
    /\ UNCHANGED <<dlPaused, dlCancelled>>
    /\ UNCHANGED notDL

\* #downloadAttachments (388-415) ends, the attachment fetched or not; then
\* 377-378
AttachDone(ok) ==
    /\ dlLoop.pc = "attaching"
    /\ dlProgress' = [dlProgress EXCEPT !.processed = @ + 1,
                                        !.attachments = IF ok THEN @ + 1 ELSE @]
    /\ dlEmitted' = {"progress"}
    /\ LET n == AfterMessage(dlLoop.chunk, dlLoop.msg, dlCancelled)
       IN  dlLoop' = n.loop /\ dlProcessing' = n.processing
    /\ UNCHANGED <<dlPaused, dlCancelled>>
    /\ UNCHANGED notDL

\* the delay between chunks ends (191), and the loop comes to the next chunk
ChunkDelayDone ==
    /\ dlLoop.pc = "chunkDelay"
    /\ LET n == LoopTop(dlLoop.chunk + 1, dlCancelled, dlPaused)
       IN  dlLoop' = n.loop /\ dlProcessing' = n.processing
    /\ dlEmitted' = {}
    /\ UNCHANGED <<dlPaused, dlCancelled, dlProgress>>
    /\ UNCHANGED notDL

\* the sleep inside `while (this.#paused)` ends (182-187): `break` leaves the
\* while loop only
PausedWake ==
    /\ dlLoop.pc = "pausedSleep"
    /\ LET n == IF dlCancelled THEN ProcessChunk(dlLoop.chunk)
                ELSE IF dlPaused THEN [loop |-> dlLoop, processing |-> TRUE]
                ELSE ProcessChunk(dlLoop.chunk)
       IN  dlLoop' = n.loop /\ dlProcessing' = n.processing
    /\ dlEmitted' = {}
    /\ UNCHANGED <<dlPaused, dlCancelled, dlProgress>>
    /\ UNCHANGED notDL

\* #createExport returns (197-203) or throws (206-209); finally, 211-213
ExportDone(ok) ==
    /\ dlLoop.pc = "exporting"
    /\ dlEmitted' = IF ok THEN {"complete"} ELSE {"error"}
    /\ dlLoop' = NoDownload
    /\ dlProcessing' = FALSE
    /\ UNCHANGED <<dlPaused, dlCancelled, dlProgress>>
    /\ UNCHANGED notDL

(* =========================== specifications =========================== *)

Init == RLInit /\ ESInit /\ SCInit /\ GMInit /\ DLInit

\* the token bucket: calls of execute, wait, setLimit and reset while the
\* clock and the refill timer run
PacingNext ==
    \/ ExecuteAccepted(0, 1, ShortTimeout)
    \/ \E j \in WaitJitters : DrainTop(j)
    \/ Invoke
    \/ WaitWake
    \/ FnFulfil
    \/ DrainFulfilled
    \/ \E u \in WaitUnits, j \in WaitJitters : WaitCall(u, j)
    \/ WaiterWake
    \/ \E l \in Limits : SetLimit(l)
    \/ Reset
    \/ Tick
    \/ SleepOut

Spec == Init /\ [][PacingNext]_vars

\* the circuit breaker: tasks with a retry budget of 1 that succeed or fail
CircuitNext ==
    \/ ExecuteAccepted(0, 1, ShortTimeout)
    \/ ExecuteRejected
    \/ \E j \in WaitJitters : DrainTop(j)
    \/ Invoke
    \/ WaitWake
    \/ FnFulfil
    \/ FnReject
    \/ DrainFulfilled
    \/ \E r \in BackoffRands : DrainFailed(r)
    \/ Reset
    \/ GetStatus
    \/ Elapse
    \/ SleepOut

SpecCircuit == Init /\ [][CircuitNext]_vars

\* time runs to the next sleeper's deadline, at most MaxTicks times
SleepOutCounted ==
    /\ ticks < MaxTicks
    /\ ticks' = ticks + 1
    /\ Sleepers # {}
    /\ \E w \in Sleepers : Advance(w)

\* the retries option, 0 included
RetryOptions == {0} \cup RetryBudgets

\* retries: tasks of each retry budget that succeed or fail, and the backoff
\* sleep between two attempts
RetryNext ==
    \/ \E r \in RetryOptions : ExecuteAccepted(0, r, ShortTimeout)
    \/ \E j \in WaitJitters : DrainTop(j)
    \/ Invoke
    \/ WaitWake
    \/ FnFulfil
    \/ FnReject
    \/ DrainFulfilled
    \/ \E r \in BackoffRands : DrainFailed(r)
    \/ BackoffWake
    \/ SleepOutCounted

SpecRetry == Init /\ [][RetryNext]_vars

\* Gmail requests: executeGmailRequest calls whose function succeeds or fails
\* with a 429 error
GmailNext ==
    \/ GmailAccepted(QuotaUnits)
    \/ GmailRefused(QuotaUnits)
    \/ \E id \in IDs : GmailReturn(id)
    \/ \E id \in IDs : GmailCatch(id)
    \/ \E j \in WaitJitters : DrainTop(j)
    \/ Invoke
    \/ WaitWake
    \/ FnFulfil
    \/ FnReject
    \/ DrainFulfilled
    \/ \E r \in BackoffRands : DrainFailed(r)
    \/ BackoffWake
    \/ SleepOutCounted

SpecGmail == Init /\ [][GmailNext]_vars

\* the downloader: its public calls, the results of its requests and its sleeps
DownloadNext ==
    \/ Download
    \/ DLPause
    \/ DLResume
    \/ DLCancel
    \/ \E att \in Attachments : FetchOk(att)
    \/ FetchFail
    \/ \E ok \in BOOLEAN : AttachDone(ok)
    \/ ChunkDelayDone
    \/ PausedWake
    \/ \E ok \in BOOLEAN : ExportDone(ok)

SpecDownload == Init /\ [][DownloadNext]_vars

\* a burst: execute() calls made back to back on the idle resource 'default',
\* all before the drainer has called the first task function
ExecuteInBurst(p) ==
    /\ ~hist.started
    /\ ExecuteAccepted(p, DefaultRetries, DefaultTimeout)

\* the constructor alone: 'default' has its 20 tokens
BurstInit ==
    /\ limits = DefaultLimit
    /\ tokens = MaxTokens(DefaultLimit)
    /\ queue = <<>>
    /\ tasks = [id \in IDs |-> NoTask]
    /\ processing = FALSE
    /\ pc = "idle"
    /\ cur = 0
    /\ wakeIn = 0
    /\ cb = NoCircuit
    /\ retryAttempts = -1
    /\ sinceLast = SinceCap
    /\ waiter = NoWaiter
    /\ phase = 0
    /\ ticks = 0
    /\ hist = NoHistory
    /\ ESInit
    /\ SCInit
    /\ GMInit
    /\ DLInit

BurstNext ==
    \/ \E p \in BurstPriorities : ExecuteInBurst(p)
    \/ \E j \in WaitJitters : DrainTop(j)
    \/ Invoke
    \/ FnFulfil
    \/ DrainFulfilled

SpecBurst == BurstInit /\ [][BurstNext]_vars

\* the steps the event loop takes on its own: the drainer's continuations and
\* the settling of a task function that was called
DrainerStep ==
    \/ \E j \in WaitJitters : DrainTop(j)
    \/ Invoke
    \/ FnFulfil
    \/ DrainFulfilled

\* the burst with every task function settling and the drainer's
\* continuations being run
SpecBurstFair == SpecBurst /\ WF_vars(DrainerStep)

\* the constructor, then setLimit(resource, PacedLimit) on a new resource
PacedInit ==
    /\ limits = PacedLimit
    /\ tokens = MaxTokens(PacedLimit)
    /\ queue = <<>>
    /\ tasks = [id \in IDs |-> NoTask]
    /\ processing = FALSE
    /\ pc = "idle"
    /\ cur = 0
    /\ wakeIn = 0
    /\ cb = NoCircuit
    /\ retryAttempts = -1
    /\ sinceLast = SinceCap
    /\ waiter = NoWaiter
    /\ phase = 0
    /\ ticks = 0
    /\ hist = NoHistory
    /\ ESInit
    /\ SCInit
    /\ GMInit
    /\ DLInit

\* execute() calls submitted together on the paced resource, their functions
\* succeeding, and time
PacedNext ==
    \/ ExecuteInBurst(0)
    \/ \E j \in WaitJitters : DrainTop(j)
    \/ Invoke
    \/ WaitWake
    \/ FnFulfil
    \/ DrainFulfilled
    \/ Tick
    \/ SleepOut

SpecPaced == PacedInit /\ [][PacedNext]_vars

\* the sender: its public calls and the steps of its loops; each remote call
\* may succeed, fail, or fail on the quota
SenderNext ==
    \/ \E d \in BOOLEAN : StartBatch(d)
    \/ Pause
    \/ Resume
    \/ Stop
    \/ RetryFailed
    \/ \E l \in LoopIds : SendOk(l)
    \/ \E l \in LoopIds, e \in ErrorClasses : SendFail(l, e)
    \/ \E l \in LoopIds : DelayDone(l)

SpecSender == Init /\ [][SenderNext]_vars

\* the cache holding primitive values: its public calls, the sweep and time
CacheNext ==
    \/ \E k \in Keys, t \in Ttls : CacheSet(k, 0, t)
    \/ \E k \in Keys, op \in {"get", "has"} : CacheGet(k, op)
    \/ \E k \in Keys : CacheDelete(k)
    \/ CacheClear
    \/ \E pct \in Percentages : CacheCleanup(pct)
    \/ CacheSweep
    \/ CacheTick

SpecCache == Init /\ [][CacheNext]_vars

\* the cache under set, get, has and delete, with the sweep and time
RemovalNext ==
    \/ \E k \in Keys, t \in Ttls : CacheSet(k, 0, t)
    \/ \E k \in Keys, op \in {"get", "has"} : CacheGet(k, op)
    \/ \E k \in Keys : CacheDelete(k)
    \/ CacheSweep
    \/ CacheTick

SpecRemoval == Init /\ [][RemovalNext]_vars

\* the keys used with weakly held values
WeakKeys == {"a", "b"}

\* the cache holding objects weakly: set, get, has and delete, the runtime
\* reclaiming a value, the finalization callback, and time
WeakNext ==
    \/ \E k \in WeakKeys, v \in Objects, t \in Ttls : CacheSet(k, v, t)
    \/ \E k \in WeakKeys : CacheGet(k, "get")
    \/ \E k \in WeakKeys : CacheDelete(k)
    \/ \E v \in Objects : Reclaim(v)
    \/ \E v \in Objects, k \in WeakKeys : HandleFinalization(v, k)
    \/ CacheTick

SpecWeak == Init /\ [][WeakNext]_vars

\* startBatch() on a sender that is neither running nor paused
StartRun(d) ==
    /\ ~esProcessing
    /\ ~esPaused
    /\ StartBatch(d)

\* one run driven by pause() and resume() only
PauseResumeNext ==
    \/ \E d \in BOOLEAN : StartRun(d)
    \/ Pause
    \/ Resume
    \/ \E l \in LoopIds : SendOk(l)
    \/ \E l \in LoopIds, e \in ErrorClasses : SendFail(l, e)
    \/ \E l \in LoopIds : DelayDone(l)

SpecPauseResume == Init /\ [][PauseResumeNext]_vars

\* startBatch() on the queue as processCSVDirect left it: nothing attempted yet
StartOnce(d) ==
    /\ \A i \in Items : items[i].status = "pending" /\ items[i].attempts = 0
    /\ StartRun(d)

\* a single run: one startBatch(), then pause() and resume() only
OneRunNext ==
    \/ \E d \in BOOLEAN : StartOnce(d)
    \/ Pause
    \/ Resume
    \/ \E l \in LoopIds : SendOk(l)
    \/ \E l \in LoopIds, e \in ErrorClasses : SendFail(l, e)
    \/ \E l \in LoopIds : DelayDone(l)

SpecOneRun == Init /\ [][OneRunNext]_vars

\* the item whose unit of work always throws a validation error
BadItem == 2

\* the remote call of any other item succeeds
SendOkGood(l) ==
    /\ loops[l].idx # BadItem
    /\ SendOk(l)

\* the remote call of the bad item fails, and not on the quota
SendFailBad(l) ==
    /\ loops[l].idx = BadItem
    /\ SendFail(l, "other")

\* runs of a batch with one bad item
OneBadNext ==
    \/ \E d \in BOOLEAN : StartRun(d)
    \/ Pause
    \/ Resume
    \/ Stop
    \/ RetryFailed
    \/ \E l \in LoopIds : SendOkGood(l)
    \/ \E l \in LoopIds : SendFailBad(l)
    \/ \E l \in LoopIds : DelayDone(l)

SpecOneBad == Init /\ [][OneBadNext]_vars

(* ============================= properties ============================= *)

\* C1: whatever setLimit, execute, wait, reset and the refill timer do, the
\* token count of the resource stays within 0 and the burst of its limit.
C1_TokenBounds ==
    /\ 0 <= tokens
    /\ tokens <= limits.burst

\* C2: of the tasks of a burst, the one whose function is running comes before
\* every other task that is still waiting (descending priority, ties in
\* submission order, which is the order of the ids in a burst), and no task
\* leaves the limiter before it has settled.
C2_PriorityOrder ==
    /\ [](pc = "running" =>
            \A id \in Range(queue) \ {cur} :
                tasks[id].settled = "no" =>
                    \/ tasks[cur].priority > tasks[id].priority
                    \/ tasks[cur].priority = tasks[id].priority /\ cur < id)
    /\ [][\A id \in IDs :
            tasks[id].live /\ tasks[id].settled = "no" => tasks'[id].live]_vars

\* C3: a task whose promise has settled is not in the queue, and the drainer
\* is not about to call its function.
C3_SettledTasksGone ==
    /\ \A id \in Range(queue) : tasks[id].settled = "no"
    /\ pc = "waited" => tasks[cur].settled = "no"

\* C4: from the 5th consecutive task failure until the open timeout has run
\* out, the circuit is open and no execute() call gets a task in.
C4_OpenAfterFiveFailures ==
    [][(hist.fifthAge >= 0 /\ hist.fifthAge <= CircuitTimeout) =>
          /\ cb.present /\ cb.state = "open"
          /\ \A id \in IDs : tasks'[id].live => tasks[id].live]_vars

\* C5: a success while the circuit is closed sets the failure counter to 0, so
\* the circuit opens only at the 5th of 5 failures with no success between them.
C5_SuccessResetsCounter ==
    [][/\ (pc = "fulfilled" /\ cb.state = "closed") => cb'.failures = 0
       /\ (cb.state # "open" /\ cb'.state = "open") =>
              hist'.consec >= FailureThreshold]_vars

\* C6: when the circuit is half-open and the attempted task succeeds, the
\* circuit becomes closed with its failure counter at 0.
C6_HalfOpenSuccessCloses ==
    [][(pc = "fulfilled" /\ cb.present /\ cb.state = "half-open") =>
          (cb'.state = "closed" /\ cb'.failures = 0)]_vars

\* C6, its case: the drainer has just handled a success that found the circuit
\* half-open, and the circuit is closed with no failures counted
C6_ClosedFromHalfOpen ==
    /\ hist.closedFrom = "half-open"
    /\ cb.present
    /\ cb.state = "closed"
    /\ cb.failures = 0
    /\ pc = "top"
    /\ retryAttempts = 0

\* C7: when the circuit is half-open and the attempted task fails for good,
\* the circuit becomes open again.
C7_HalfOpenFailureReopens ==
    [][(/\ pc = "failed"
        /\ tasks[cur].attempts + 1 >= tasks[cur].retries
        /\ cb.present
        /\ cb.state = "half-open") => cb'.state = "open"]_vars

\* C8: the sender's counters agree with the items: sent and failed count the
\* items of that status, and the four statuses together make up the total.
C8_CountersMatchItems ==
    /\ progress.sent = CountStatus(items, "sent")
    /\ progress.failed = CountStatus(items, "failed")
    /\ CountStatus(items, "sent") + CountStatus(items, "failed")
         + CountStatus(items, "cancelled") + CountStatus(items, "pending")
         = progress.total
    /\ progress.sent + progress.failed <= progress.total

\* C9: stop() called on a run that is running or paused leaves no item pending.
C9_StopLeavesNoPending ==
    (lastCall.op = "stop" /\ lastCall.unfinished) =>
        \A i \in Items : items[i].status # "pending"

\* C10: an item that is sent, failed or cancelled keeps its status and has no
\* further send counted (the loop whose remote call for it ends leaves the sent
\* counter alone), until retryFailed() starts it over.
C10_TerminalStatusIsFinal ==
    [][\A i \in Items :
          (/\ items[i].status \in {"sent", "failed", "cancelled"}
           /\ ~(lastCall'.op = "retryFailed" /\ lastCall'.ok)) =>
             /\ items'[i].status = items[i].status
             /\ \A l \in LoopIds :
                  (/\ loops[l].pc = "sending"
                   /\ loops[l].idx = i
                   /\ loops'[l] # loops[l]) => progress'.sent = progress.sent]_vars

C12_OneLoop ==
    /\ Cardinality({ l \in LoopIds : loops[l].pc # "none" }) <= 1
    /\ \A l, m \in LoopIds :
          (/\ l # m
           /\ loops[l].pc = "sending"
           /\ loops[m].pc = "sending") => loops[l].idx # loops[m].idx

\* C13: when a remote call has just failed with a quota-class error (code 429,
\* or a message containing 'quota'), the run is paused, the quota-exceeded
\* notification has been emitted, and no loop goes on to a later item.
C13_QuotaErrorPauses ==
    lastCall.op \in {"quota", "rate-limit-429"} =>
        /\ esPaused
        /\ "quota_exceeded" \in emitted
        /\ \A l \in LoopIds : loops[l].pc = "none"

\* C14: when the run of a batch with one item that always fails on a
\* validation error ends (its loop has just left, not for a pause and with no
\* item cancelled by stop()), that item is failed and in the failed list, every
\* other item is sent, and the counters say so.
C14_BadItemFailsOthersSent ==
    (/\ "complete" \in emitted
     /\ ~esPaused
     /\ \A i \in Items : items[i].status # "cancelled") =>
        /\ items[BadItem].status = "failed"
        /\ BadItem \in Range(failedEmails)
        /\ \A i \in Items \ {BadItem} : items[i].status = "sent"
        /\ progress.sent = MaxItems - 1
        /\ progress.failed = 1

\* C15: the 'complete' notification is emitted only when no item is pending any
\* more (the loop went through all of them, or stop() cancelled the rest), and
\* once no loop is left the sender is neither processing nor paused.
C15_CompleteOnlyAtEnd ==
    /\ "complete" \in emitted => \A i \in Items : items[i].status # "pending"
    /\ (\A l \in LoopIds : loops[l].pc = "none") => (~esProcessing /\ ~esPaused)

\* C16: a set of a key that is not resident, made when the cache holds CacheMax
\* entries, leaves CacheMax entries, and the entry that went is one whose
\* last-touched timestamp was the oldest.
C16_FullCacheEvictsOldest ==
    [][\A k \in Keys :
          (k \notin Range(cOrder) /\ k \in Range(cOrder') /\ Len(cOrder) = CacheMax) =>
             /\ Len(cOrder') = CacheMax
             /\ \E o \in Range(cOrder) :
                   /\ o \notin Range(cOrder')
                   /\ \A j \in Range(cOrder) :
                         cEntry[o].timestamp <= cEntry[j].timestamp]_vars

\* C17: a get of a resident key returns the value when less than the ttl has
\* passed since the set that stored it, and not-found when more than the ttl
\* has passed since that set; after a get that returned not-found the key is
\* not resident.
C17_TtlCountsFromSet ==
    /\ [][(cLast'.op = "get" /\ cLast'.key \in Range(cOrder)) =>
            LET e == cEntry[cLast'.key]
            IN  /\ cNow - e.setAt < e.ttl => cLast'.found
                /\ cNow - e.setAt > e.ttl => ~cLast'.found]_vars
    /\ []((cLast.op = "get" /\ ~cLast.found) => cLast.key \notin Range(cOrder))

\* C18: the cache never holds more than maxSize entries.
C18_SizeWithinMax == Len(cOrder) <= CacheMax

\* C19: there is never more than one drainer, the processing flag is set exactly
\* while there is one, and an execute() made while a drainer runs queues its
\* task and leaves the drainer where it was, starting no other.
C19_SingleDrainer ==
    /\ [](/\ hist.drainers <= 1
          /\ processing <=> hist.drainers = 1
          /\ processing <=> pc # "idle")
    /\ [][\A id \in IDs :
            (~tasks[id].live /\ tasks'[id].live /\ processing) =>
               /\ hist'.drainers = hist.drainers
               /\ pc' = pc
               /\ cur' = cur
               /\ id \in Range(queue')]_vars

\* C19 witness: the backoff sleep has run its time and the drainer has not yet
\* resumed; a task queued at this instant waits behind the one drainer.
C19_QueuedDuringBackoff ==
    /\ pc = "backoff"
    /\ wakeIn = 0
    /\ hist.drainers = 1
    /\ \E id \in Range(queue) : tasks[id].age = 0 /\ tasks[id].calls = 0

\* C20: no task's attempt counter exceeds its retries option, and no task's
\* function has been called more often than its retries option allows.
C20_AttemptsWithinBudget ==
    \A id \in IDs :
       tasks[id].live =>
          /\ tasks[id].attempts <= tasks[id].retries
          /\ tasks[id].calls <= tasks[id].retries

\* C21: when the drainer finds at the head of the queue a task that has waited
\* longer than its timeout, its next step removes that task and settles it,
\* calls no task's function, takes no token, leaves the circuit breaker and its
\* failure counter as they were, and stays at the head of the loop for the next
\* task.
C21_TimedOutTaskSkipped ==
    [][(pc = "top" /\ queue # <<>> /\ tasks[queue[1]].age > tasks[queue[1]].timeout) =>
          LET h == queue[1]
          IN  /\ queue' = Tail(queue)
              /\ tasks'[h].live => tasks'[h].settled # "no"
              /\ \A id \in IDs : tasks'[id].live => tasks'[id].calls = tasks[id].calls
              /\ tokens' = tokens
              /\ cb' = cb
              /\ pc' = "top"
              /\ cur' = cur]_vars

\* C21 witness: a timed-out task is at the head, another task waits behind it,
\* a token is there to take and the failure counter is running.
C21_TimedOutAtHead ==
    /\ pc = "top"
    /\ Len(queue) >= 2
    /\ tasks[queue[1]].age > tasks[queue[1]].timeout
    /\ tasks[queue[1]].settled = "no"
    /\ tokens >= 1
    /\ cb.failures >= 1

\* C22: a step taken while callers may run that rejects a task still in the
\* queue (only reset() does) leaves the queue empty, the tokens at burst, and
\* the circuit closed with no failure recorded.
C22_ResetEmptiesQueue ==
    [][(/\ CallerMayRun
        /\ pc' = pc
        /\ \E id \in Range(queue) :
              tasks[id].settled = "no" /\ tasks'[id].settled = "rejected") =>
          /\ queue' = <<>>
          /\ tokens' = MaxTokens(limits)
          /\ ~IsCircuitOpen(cb') /\ cb'.state = "closed" /\ cb'.failures = 0]_vars

\* C23: a step that leaves tokens, limits, queue, tasks, the drainer and the
\* retry counter as they were (getStatus is the one call that must) also leaves
\* the circuit's state and its failure counter as they were.
C23_GetStatusChangesNothing ==
    [][UNCHANGED <<limits, tokens, queue, tasks, processing, pc, cur, wakeIn,
                   retryAttempts, sinceLast, waiter, phase, ticks, hist>> =>
          /\ cb'.present = cb.present
          /\ cb'.state = cb.state
          /\ cb'.failures = cb.failures]_vars

\* C24: when executeGmailRequest catches the 429 error its call finally failed
\* with, the circuit is open after the catch; and from then until the open
\* timeout has passed no execute() is accepted.
C24_QuotaErrorOpensCircuit ==
    [][/\ \A id \in IDs :
            (wrappers[id].active /\ ~wrappers'[id].active /\ tasks[id].fnError) =>
               IsCircuitOpen(cb')
       /\ (hist.quotaAge >= 0 /\ hist.quotaAge <= CircuitTimeout) =>
            \A id \in IDs : tasks'[id].live /\ tasks'[id].settled = "no" =>
                               tasks[id].live]_vars

\* C25: of the execute() calls submitted together on a resource of rate 1,
\* interval 1000, burst 1, the function of the k-th is not called before
\* (k-1) * interval/rate ms have passed, so the third does not complete before
\* 2000 ms have passed.
C25_PacedInvocations ==
    [][\A id \in IDs :
          /\ (tasks[id].live /\ tasks'[id].live /\ tasks'[id].calls > tasks[id].calls) =>
                tasks[id].age >= (id - 1) * (PacedLimit.interval \div PacedLimit.rate)
          /\ (id = 3 /\ pc = "fulfilled" /\ cur = id /\ pc' = "top") =>
                tasks[id].age >= 2 * (PacedLimit.interval \div PacedLimit.rate)]_vars

\* C30: a refill tick adds rate * (100 / interval) tokens to a bucket that is
\* below burst, never beyond burst, and leaves a full bucket as it is.
C30_RefillPerTick ==
    [][ticks' = ticks + 1 =>
          IF tokens < MaxTokens(limits)
          THEN tokens' * limits.interval =
                  Min(MaxTokens(limits) * limits.interval,
                      tokens * limits.interval + limits.rate * RefillPeriod)
          ELSE tokens' = tokens]_vars

\* C26: while a download is running and cancel() has returned true, no request
\* for a message is begun.
C26_NoFetchAfterCancel ==
    [][(dlProcessing /\ dlCancelled) =>
          ~(/\ dlLoop'.pc = "fetching"
            /\ dlLoop.pc # "fetching" \/ dlLoop'.msg # dlLoop.msg)]_vars

C28_DeleteIsIdempotent ==
    [][/\ cLast'.op = "delete" =>
            /\ cLast'.found <=> cLast'.key \in Range(cOrder)
            /\ cLast'.key \in Range(cOrder) =>
                  /\ cOrder' = MapDelete(cOrder, cLast'.key)
                  /\ \A k \in Keys \ {cLast'.key} : cEntry'[k] = cEntry[k]
                  /\ cStats'.evictions = cStats.evictions + 1
       /\ (cLast'.op \in {"delete", "get", "has"} /\ cLast'.key \notin Range(cOrder)) =>
            /\ ~cLast'.found
            /\ UNCHANGED <<cOrder, cEntry, cStats>>]_vars

\* C28 witness: a delete has just returned false for a key that an earlier
\* deletion removed, while another entry is resident.
C28_SecondDelete ==
    /\ cLast.op = "delete"
    /\ ~cLast.found
    /\ cLast.key \notin Range(cOrder)
    /\ cStats.evictions >= 1
    /\ cOrder # <<>>

\* C29: while the circuit is half-open and the task admitted as its probe has
\* not settled, no further execute() call is accepted.
C29_OneProbeWhileHalfOpen ==
    [][(cb.present /\ cb.state = "half-open" /\ ProbeOutstanding) =>
          \A id \in IDs : tasks'[id].live => tasks[id].live]_vars

\* C31: every return from wait(resource, units) has consumed exactly `units`
\* tokens: when a sleeping wait() returns, for a direct caller or for the
\* drainer, the bucket held at least `units` tokens and the count drops by
\* exactly `units`.
C31_WaitConsumesUnits ==
    [][/\ (waiter.active /\ waiter.wakeIn = 0 /\ ~waiter'.active /\ limits' = limits
              /\ queue' = queue /\ tasks' = tasks) =>
            (tokens >= waiter.units /\ tokens' = tokens - waiter.units)
       /\ (pc = "waiting" /\ pc' = "running") =>
            (tokens >= 1 /\ tokens' = tokens - 1)]_vars

\* C32: whenever getStatus() can be called, the queueSize it reports is the
\* number of tasks held in the resource's queue.
C32_QueueSizeReported ==
    CallerMayRun => StatusQueueSize = Len(queue)

\* C33: an open circuit stops being open only by becoming half-open once its
\* timeout has elapsed, or by reset() deleting its record; it never goes
\* from open to closed in one step.
C33_OpenLeavesViaHalfOpen ==
    [][(cb.present /\ cb.state = "open" /\ ~(cb'.present /\ cb'.state = "open")) =>
          \/ ~cb'.present
          \/ cb'.state = "half-open" /\ cb.openAge > CircuitTimeout]_vars

\* C34: when the runtime has reclaimed the value an entry holds weakly, the
\* finalization callback for it removes the entry and increments the eviction
\* counter that getStats() reports.
C34_FinalizationCountsEviction ==
    [][\A v \in Objects, k \in Keys :
          (/\ <<v, k>> \in cRegistered
           /\ <<v, k>> \notin cRegistered'
           /\ k \in Range(cOrder)
           /\ cEntry[k].ref
           /\ cEntry[k].val = v) =>
             /\ k \notin Range(cOrder')
             /\ cStats'.evictions = cStats.evictions + 1]_vars

\* C38: the finalization callback for a reclaimed value leaves alone an entry
\* that no longer refers to that value: after set(k, A) and set(k, B), the
\* reclamation of A does not remove the entry for k holding B.
C38_FinalizationSparesNewValue ==
    [][\A v \in Objects, k \in Keys :
          (/\ <<v, k>> \in cRegistered
           /\ <<v, k>> \notin cRegistered'
           /\ k \in Range(cOrder)
           /\ cEntry[k].val # v
           /\ ~Collected(cEntry[k], cReclaimed)) =>
             /\ k \in Range(cOrder')
             /\ cEntry'[k] = cEntry[k]]_vars

\* C39: set(key, value) on a key that is already resident replaces that
\* key's entry only; every entry stored under another key stays as it was,
\* also when the cache is at capacity.
C39_SetResidentKeepsOthers ==
    [][(cLast'.op = "set" /\ cLast'.key \in Range(cOrder)) =>
          \A k \in Range(cOrder) \ {cLast'.key} :
              k \in Range(cOrder') /\ cEntry'[k] = cEntry[k]]_vars

\* C35: every task accepted by execute() is eventually resolved or rejected:
\* a task leaves its queue only in the step that settles its promise (or
\* after it), and no accepted task stays unsettled for ever.
C35_AcceptedTasksSettle ==
    /\ [][\A id \in IDs :
             (id \in Range(queue) /\ id \notin Range(queue')) =>
                \/ tasks[id].settled # "no"
                \/ pc = "fulfilled" /\ id = cur
                \/ pc = "failed" /\ id = cur
                \/ pc = "top" /\ id = queue[1] /\ TimedOut(tasks[id])
                \/ CallerMayRun /\ queue' = <<>>]_vars
    /\ \A id \in IDs :
          (tasks[id].live /\ tasks[id].settled = "no")
             ~> ~(tasks[id].live /\ tasks[id].settled = "no")

\* C36: while the circuit is open and its timeout has not elapsed, no task
\* function is invoked, tasks queued before the circuit opened included.
C36_NoInvocationWhileOpen ==
    [][IsCircuitOpen(cb) =>
          \A id \in IDs : tasks'[id].live => tasks'[id].calls <= tasks[id].calls]_vars

\* C37: no update of the stored daily quota counter is lost: each
\* executeGmailRequest call that succeeds raises the stored counter by its
\* quotaUnits, whatever other calls were in flight, so that the counter is its
\* initial value plus the units of the calls that succeeded; and that sum
\* stays within the daily ceiling.
C37_QuotaCounterExact ==
    /\ [][\A id \in IDs :
             (wrappers[id].active /\ ~wrappers'[id].active
                 /\ tasks[id].settled = "resolved") =>
                quotaStored' = quotaStored + wrappers[id].quotaUnits]_vars
    /\ [](quotaStored <= QuotaPerDay)

\* C40: during a download processed + failed never exceeds total; each
\* message is counted once, as processed or as failed, so the two counters
\* together are the number of messages the loop has finished with; and when
\* 'complete' is emitted processed + failed equals total.
C40_ProgressCounters ==
    LET counted == dlProgress.processed + dlProgress.failed
    IN  /\ counted <= dlProgress.total
        /\ dlLoop.pc \in {"fetching", "attaching"} => counted = dlLoop.msg - 1
        /\ dlLoop.pc = "chunkDelay" => counted = ChunkLast(dlLoop.chunk)
        /\ dlLoop.pc = "pausedSleep" => counted = ChunkFirst(dlLoop.chunk) - 1
        /\ dlLoop.pc = "exporting" => counted = dlProgress.total
        /\ "complete" \in dlEmitted => counted = dlProgress.total

\* C40 witness: 'complete' has been emitted after a download in which one
\* message failed and another was processed.
C40_CompleteWithFailure ==
    /\ "complete" \in dlEmitted
    /\ dlProgress.failed >= 1
    /\ dlProgress.processed >= 1
    /\ dlProgress.total = MaxMessages

====
